---------------------------- MODULE Spec2Model ----------------------------
(***************************************************************************)
(* KSE-100 allocation and SIP projection (src/main.py, src/kse1.py,        *)
(* src/sip.py).                                                            *)
(*                                                                         *)
(* Number representation.  The Python code computes in binary floating     *)
(* point.  The allocation is computed exactly, on inputs drawn from dyadic *)
(* values for which the float operations of the code are exact; the SIP    *)
(* simulation is computed in floating point, each operation rounded to a   *)
(* double as the code's is:                                                *)
(*   weight             sixteenths          (4 is the weight 0.25)         *)
(*   coverage_percent   whole percent       (50 is 50%)                    *)
(*   price, amounts     eighths of a rupee  (163 is 20.375 PKR)            *)
(*   2-decimal figures  hundredths          (round(x, 2) * 100)            *)
(*   an absent price    NaN                                                *)
(*   SIP amounts        doubles, written as multiples of 2^-40 rupee       *)
(*   SIP interest rate  whole multiples of 1200% a year (monthly_rate is   *)
(*                      then a whole number)                               *)
(* A quotient the code leaves unrounded (adjusted_weight,                  *)
(* allocation_amount) is carried as numerator and denominator.             *)
(***************************************************************************)
EXTENDS Integers, Sequences, FiniteSets

\* ------------------------------------------------------------------ bounds
MaxSecurities == 3

\* weight 1.0 in sixteenths, 1 rupee in eighths
WeightOne == 16
Rupee == 8

\* pandas' NaN / None price
NaN == -1

RawWeights == {0, 4, 8}
RawPrices == {NaN, 0, 163}
CoveragePercents == {25, 50, 100}
InvestmentAmounts == {8000, 8003}

\* ------------------------------------------------------- numeric helpers
Min(S) == CHOOSE x \in S : \A y \in S : x <= y
Max(S) == CHOOSE x \in S : \A y \in S : x >= y

\* round(n/d) to the nearest integer, ties to the even one: Python's round()
\* and numpy's rint on a value the float holds exactly
RoundHalfEven(n, d) ==
    LET q == n \div d
        r == n % d
    IN  IF 2 * r < d THEN q
        ELSE IF 2 * r > d THEN q + 1
        ELSE IF q % 2 = 0 THEN q ELSE q + 1

\* round(x, 2) of an amount in eighths, in hundredths
round2(x) == RoundHalfEven(x * 100, Rupee)

\* ----------------------------------------------------- unbounded naturals
\* The SIP balance outgrows TLC's 32-bit integers, so SIP amounts are naturals
\* written in base 2^10, least significant limb first, without leading zero
\* limbs (0 is <<>>).  The unit is 2^-40 rupee.  The operations of this section
\* are exact; the code's float operations are built from them below.
Base == 2 ^ 10

RECURSIVE Big(_)
Big(n) == IF n = 0 THEN <<>> ELSE <<n % Base>> \o Big(n \div Base)

BigNorm(a) == SubSeq(a, 1, Max({0} \cup {i \in DOMAIN a : a[i] # 0}))

RECURSIVE BigAddC(_, _, _)
BigAddC(a, b, c) ==
    IF a = <<>> /\ b = <<>> THEN Big(c)
    ELSE LET x == (IF a = <<>> THEN 0 ELSE Head(a)) + (IF b = <<>> THEN 0 ELSE Head(b)) + c
         IN  <<x % Base>> \o BigAddC(IF a = <<>> THEN a ELSE Tail(a),
                                     IF b = <<>> THEN b ELSE Tail(b), x \div Base)

BigAdd(a, b) == BigAddC(a, b, 0)

\* a * k for an integer 0 <= k <= 2^20
RECURSIVE BigMulC(_, _, _)
BigMulC(a, k, c) ==
    IF a = <<>> THEN Big(c)
    ELSE LET x == Head(a) * k + c
         IN  <<x % Base>> \o BigMulC(Tail(a), k, x \div Base)

BigMul(a, k) == BigNorm(BigMulC(a, k, 0))

BigLess(a, b) ==
    IF Len(a) # Len(b) THEN Len(a) < Len(b)
    ELSE \E i \in DOMAIN a :
            /\ a[i] < b[i]
            /\ \A j \in (i + 1)..Len(a) : a[j] = b[j]

BigLeq(a, b) == ~BigLess(b, a)

\* a - b for a >= b
RECURSIVE BigSubC(_, _, _)
BigSubC(a, b, c) ==
    IF a = <<>> THEN <<>>
    ELSE LET x == Head(a) - (IF b = <<>> THEN 0 ELSE Head(b)) - c
         IN  <<x % Base>> \o BigSubC(Tail(a), IF b = <<>> THEN b ELSE Tail(b),
                                     IF x < 0 THEN 1 ELSE 0)

BigSub(a, b) == BigNorm(BigSubC(a, b, 0))

\* the largest g in lo..hi-1 with g * d <= a, given lo * d <= a < hi * d
RECURSIVE BigDigit(_, _, _, _)
BigDigit(a, d, lo, hi) ==
    IF hi - lo = 1 THEN lo
    ELSE LET mid == (lo + hi) \div 2
         IN  IF BigLeq(BigMul(d, mid), a) THEN BigDigit(a, d, mid, hi)
             ELSE BigDigit(a, d, lo, mid)

\* long division of n by d > 0, from the limb i down, given the quotient q and
\* the remainder r of the limbs above i: [q, r]
RECURSIVE BigDivFrom(_, _, _, _, _)
BigDivFrom(n, d, i, q, r) ==
    IF i = 0 THEN [q |-> q, r |-> r]
    ELSE LET cur == BigNorm(<<n[i]>> \o r)
             g == BigDigit(cur, d, 0, Base)
         IN  BigDivFrom(n, d, i - 1, <<g>> \o q, BigSub(cur, BigMul(d, g)))

\* the top Len(d) - 1 limbs of n are less than d: the division starts below them
BigDivMod(n, d) ==
    IF Len(n) < Len(d) THEN [q |-> <<>>, r |-> n]
    ELSE BigDivFrom(n, d, Len(n) - Len(d) + 1, <<>>,
                    BigNorm(SubSeq(n, Len(n) - Len(d) + 2, Len(n))))

BigDiv(n, d) == BigNorm(BigDivMod(n, d).q)
BigMod(n, d) == BigDivMod(n, d).r

BigEven(a) == a = <<>> \/ a[1] % 2 = 0

\* round(n/d) to the nearest integer, ties to the even one
BigRoundHalfEven(n, d) ==
    LET q == BigDiv(n, d)
        r2 == BigMul(BigMod(n, d), 2)
    IN  IF BigLess(r2, d) THEN q
        ELSE IF BigLess(d, r2) THEN BigAdd(q, Big(1))
        ELSE IF BigEven(q) THEN q ELSE BigAdd(q, Big(1))

\* ------------------------------------------------------------ Python floats
\* A Python float is an IEEE double: 53 significant bits, every operation
\* rounded to the nearest double, ties to the even one.  The amounts of the SIP
\* simulation are multiples of 2^-40 rupee far from the ends of the exponent
\* range, so a double is written as the natural number of its 2^-40 units.
MantissaBits == 53

RECURSIVE BitsOf(_)
BitsOf(n) == IF n = 0 THEN 0 ELSE 1 + BitsOf(n \div 2)

\* the number of significant bits of a
BitLen(a) == IF a = <<>> THEN 0 ELSE 10 * (Len(a) - 1) + BitsOf(a[Len(a)])

\* a * 2^s, and the whole part of a / 2^s
ShiftLeft(a, s) ==
    IF a = <<>> THEN a ELSE [i \in 1..(s \div 10) |-> 0] \o BigMul(a, 2 ^ (s % 10))

ShiftRight(a, s) ==
    LET k == s \div 10
        j == s % 10
    IN  IF k >= Len(a) THEN <<>>
        ELSE BigNorm([i \in 1..(Len(a) - k) |->
                        (a[i + k] \div 2 ^ j)
                        + (IF i + k < Len(a) THEN (a[i + k + 1] % 2 ^ j) * 2 ^ (10 - j)
                           ELSE 0)])

\* the bit i of a (bit 0 is the lowest), and whether all bits below i are 0
BitAt(a, i) == IF i \div 10 >= Len(a) THEN 0 ELSE (a[i \div 10 + 1] \div 2 ^ (i % 10)) % 2
ZeroBelow(a, i) ==
    /\ \A l \in 1..Min({Len(a), i \div 10}) : a[l] = 0
    /\ i \div 10 < Len(a) => a[i \div 10 + 1] % 2 ^ (i % 10) = 0

\* a / 2^s rounded to the nearest whole number, ties to the even one
RoundShift(a, s) ==
    IF s = 0 THEN a
    ELSE LET q == ShiftRight(a, s)
         IN  IF BitAt(a, s - 1) = 1 /\ (~ZeroBelow(a, s - 1) \/ ~BigEven(q))
             THEN BigAdd(q, Big(1)) ELSE q

\* the double nearest to the real number a
Double(a) ==
    IF BitLen(a) <= MantissaBits THEN a
    ELSE ShiftLeft(RoundShift(a, BitLen(a) - MantissaBits), BitLen(a) - MantissaBits)

\* x + y, x - y (x >= y) and x * k on floats
float_add(x, y) == Double(BigAdd(x, y))
float_sub(x, y) == Double(BigSub(x, y))
float_mul(x, k) == Double(BigMul(x, k))

\* n / d on floats, for d > 0: the double sig * 2^-exp nearest to the quotient
\* (a quotient need not be a multiple of 2^-40, so it keeps its own exponent)
FloatDivAt(n, d, k) ==
    IF k >= 0 THEN BigRoundHalfEven(ShiftLeft(n, k), d)
    ELSE BigRoundHalfEven(n, ShiftLeft(d, 0 - k))

float_div(n, d) ==
    IF n = <<>> THEN [sig |-> <<>>, exp |-> 0]
    ELSE LET k == MantissaBits - (BitLen(n) - BitLen(d))
             floor_k == IF k >= 0 THEN BigDiv(ShiftLeft(n, k), d)
                        ELSE BigDiv(n, ShiftLeft(d, 0 - k))
             e == IF BitLen(floor_k) > MantissaBits THEN k - 1 ELSE k
         IN  [sig |-> FloatDivAt(n, d, e), exp |-> e]

\* a * b
RECURSIVE BigTimes(_, _)
BigTimes(a, b) ==
    IF b = <<>> THEN <<>>
    ELSE BigAdd(BigMul(a, Head(b)), ShiftLeft(BigTimes(a, Tail(b)), 10))

\* x * f on floats, for an amount x and a quotient f: a float with its own
\* exponent again
float_scale(x, f) ==
    LET p == BigTimes(x, f.sig)
        s == Max({0, BitLen(p) - MantissaBits})
    IN  [sig |-> RoundShift(p, s), exp |-> f.exp - s]

\* x + f on floats, for an amount x and a float f with its own exponent; the
\* sum is an amount again
float_add_scaled(x, f) ==
    IF f.exp <= 0 THEN float_add(x, ShiftLeft(f.sig, 0 - f.exp))
    ELSE LET t == BigAdd(ShiftLeft(x, f.exp), f.sig)
             s == Max({f.exp, BitLen(t) - MantissaBits})
         IN  ShiftLeft(RoundShift(t, s), s - f.exp)

\* f * k on floats, for a whole number k
float_times(f, k) == [sig |-> Double(BigMul(f.sig, k)), exp |-> f.exp]

\* round(f, 2) and f"{f:.2f}", in hundredths
float_round2(f) ==
    IF f.exp >= 0 THEN RoundShift(BigMul(f.sig, 100), f.exp)
    ELSE ShiftLeft(BigMul(f.sig, 100), 0 - f.exp)

\* 1 rupee, and an amount of `eighths` eighths of a rupee, in units of 2^-40
BigRupee == BigMul(BigMul(Big(1), 2 ^ 20), 2 ^ 20)
Rupees8(eighths) == BigMul(BigMul(Big(eighths), 2 ^ 17), 2 ^ 20)

\* round(x, 2) of an amount in units of 2^-40 rupee, in hundredths
big_round2(x) == BigRoundHalfEven(BigMul(x, 100), BigRupee)

\* ---------------------------------------------------------------- symbols
\* A symbol is a sequence of characters.
UpperChar(c) ==
    CASE c = "a" -> "A" [] c = "b" -> "B" [] c = "c" -> "C"
      [] c = "d" -> "D" [] c = "e" -> "E" [] c = "h" -> "H"
      [] OTHER -> c

upper(s) == [i \in DOMAIN s |-> UpperChar(s[i])]

RECURSIVE lstrip(_)
lstrip(s) == IF s # <<>> /\ Head(s) = " " THEN lstrip(Tail(s)) ELSE s

RECURSIVE rstrip(_)
rstrip(s) ==
    IF s # <<>> /\ s[Len(s)] = " " THEN rstrip(SubSeq(s, 1, Len(s) - 1)) ELSE s

strip(s) == rstrip(lstrip(s))

\* the symbol column of the spreadsheet: row i holds SymbolAt(i)
SymbolAt(i) ==
    CASE i = 1 -> <<"h", "b">>
      [] i = 2 -> <<"E", "c", " ">>
      [] i = 3 -> <<"D", "A">>
      [] OTHER -> <<"A", "B", "C">>

\* ------------------------------------------------------------- price feed
\* response.json()["data"]: an ordered mapping symbol -> stock entry
Stock(sym, is_dict, has_price, price) ==
    [sym |-> sym, is_dict |-> is_dict, has_price |-> has_price, price |-> price]

Feeds ==
    { <<>>,
      << Stock(<<"H", "B">>, TRUE, TRUE, 88) >>,
      << Stock(<<"h", "b">>, TRUE, TRUE, 40),
         Stock(<<"e", "c">>, TRUE, TRUE, 4803),
         Stock(<<"D", "A">>, TRUE, FALSE, 0),
         Stock(<<"A", "B", "C">>, FALSE, FALSE, 0),
         Stock(<<"H", "B">>, TRUE, TRUE, 163) >> }

FetchOutcomes == {"ok", "exception", "status_500"}

MaxYears == 3

\* for _ in range(12)
MonthsPerYear == 12

VARIABLES
    store,                  \* kse100.xlsx: rows [symbol, weight, price]
    fetch,                  \* what requests.get(API_URL) does
    stocks,                 \* the feed's "data" when the fetch succeeds
    pc,                     \* position of the request
    price_update_success,   \* update_prices_api()[0] / update_prices()
    store0,                 \* the spreadsheet as it was before the refresh
    coverage_percent,
    investment_amount,
    response                \* what the caller gets

alloc_vars == <<store, fetch, stocks, pc, price_update_success, store0,
                coverage_percent, investment_amount, response>>

VARIABLES
    sip_site,                   \* "api": main.py compute_sip_api, "cli": sip.py sip_calculator
    initial_balance,            \* the arguments of the call
    years,
    annual_interest_rate,
    monthly_investment_1,
    yearly_increment_percent,
    sip_pc,                     \* position inside the call
    balance,                    \* main.py balance, sip.py opening_balance
    total_deposits,             \* main.py total_deposits, sip.py total_invested
    total_earnings,
    monthly_investment,
    year,
    month,
    year_deposits,
    year_earnings,
    monthly_interest,
    rows,
    sip_result,                 \* the summary, or the exception raised
    returned                    \* returned[n]: what the call with years = n returned, and its
                                \* unrounded final balance

sip_vars == <<sip_site, initial_balance, years, annual_interest_rate,
              monthly_investment_1, yearly_increment_percent, sip_pc, balance,
              total_deposits, total_earnings, monthly_investment, year, month,
              year_deposits, year_earnings, monthly_interest, rows, sip_result,
              returned>>

sip_locals == <<balance, total_deposits, total_earnings, monthly_investment,
                year, month, year_deposits, year_earnings, monthly_interest, rows>>

sip_args == <<sip_site, initial_balance, annual_interest_rate,
              monthly_investment_1, yearly_increment_percent>>



\* ------------------------------------------------------------ price refresh
\* price_lookup.get(key, None) for price_lookup = {sym.upper(): stock["price"]
\* for sym, stock in stocks.items() if isinstance(stock, dict) and "price" in
\* stock}: the last entry whose upper-cased key is `key` wins
price_lookup_get(stks, key) ==
    LET hits == {i \in DOMAIN stks :
                    /\ stks[i].is_dict
                    /\ stks[i].has_price
                    /\ upper(stks[i].sym) = key}
    IN  IF hits = {} THEN NaN ELSE stks[Max(hits)].price

\* df['price'] = [price_lookup.get(str(sym).upper().strip(), None) ...]
refreshed_price(stks, row) == price_lookup_get(stks, strip(upper(row.symbol)))

refreshed(df, stks) ==
    [i \in DOMAIN df |-> [df[i] EXCEPT !.price = refreshed_price(stks, df[i])]]

\* df['price'].notna().sum()
updated_count(df) == Cardinality({i \in DOMAIN df : df[i].price # NaN})

\* ---------------------------------------------------------------- selection
\* df['weight'].cumsum()
RECURSIVE cumsum(_)
cumsum(ws) ==
    IF ws = <<>> THEN <<>>
    ELSE LET prev == cumsum(SubSeq(ws, 1, Len(ws) - 1))
         IN  Append(prev, (IF prev = <<>> THEN 0 ELSE prev[Len(prev)]) + ws[Len(ws)])

cum_weight(df) == cumsum([i \in DOMAIN df |-> df[i].weight])

\* df[df['cum_weight'] >= coverage_percent / 100].index
coverage_reached_idx(df, cp) ==
    {i \in DOMAIN df : cum_weight(df)[i] * 100 >= cp * WeightOne}

\* fault variant: the crossing row is left out
selected_excluding_crossing(df, cp) ==
    IF coverage_reached_idx(df, cp) # {}
    THEN SubSeq(df, 1, Min(coverage_reached_idx(df, cp)) - 1)
    ELSE df

\* df.loc[:first_coverage_idx] (label slice, end included), else the whole df
selected(df, cp) ==
    IF coverage_reached_idx(df, cp) # {}
    THEN SubSeq(df, 1, Min(coverage_reached_idx(df, cp)))
    ELSE df

\* selected['weight'].sum()
RECURSIVE weight_sum(_)
weight_sum(sel) ==
    IF sel = <<>> THEN 0 ELSE sel[1].weight + weight_sum(Tail(sel))

total_selected_weight(df, cp) == weight_sum(selected(df, cp))

\* ------------------------------------------------------------ share rounding
\* pd.isna(price) or price <= 0
invalid_price(price) == price = NaN \/ price <= 0

\* fault variant: shares rounded up
shares_ceil(weight, total, amount, price) ==
    (weight * amount + total * price - 1) \div (total * price)

\* math.floor(allocation_amount / price), allocation_amount = adj_weight *
\* investment_amount, adj_weight = weight / total
shares_of(weight, total, amount, price) ==
    (weight * amount) \div (total * price)

\* fault variant: every line counts as an investment
counts_any_line(shares) == shares >= 0

\* if shares > 0: successful_investments += 1 (main.py); len([r for r in
\* results if r['shares'] > 0]) (kse1.py)
counts_as_invested(shares) == shares > 0

\* One pass of `for _, row in selected.iterrows()` over rows 1..k.  With a zero
\* weight total adjusted_weight is NaN (0/0) and math.floor raises ValueError on
\* the first row it reaches.
RECURSIVE iterrows(_, _, _, _)
iterrows(sel, total, amount, k) ==
    IF k = 0
    THEN [raised |-> FALSE, results |-> <<>>, total_invested |-> 0,
          successful_investments |-> 0]
    ELSE LET acc == iterrows(sel, total, amount, k - 1)
             row == sel[k]
         IN  IF acc.raised \/ invalid_price(row.price) THEN acc
             ELSE IF total = 0 THEN [acc EXCEPT !.raised = TRUE]
             ELSE LET shares == shares_of(row.weight, total, amount, row.price)
                      invested_amount == shares * row.price
                  IN  [raised |-> FALSE,
                       results |-> Append(acc.results,
                           [symbol |-> row.symbol,
                            weight_percent |-> RoundHalfEven(row.weight * 10000, WeightOne),
                            adjusted_weight_percent |-> RoundHalfEven(row.weight * 10000, total),
                            adjusted_weight |-> <<row.weight, total>>,
                            price |-> row.price,
                            shares |-> shares,
                            invested_amount |-> round2(invested_amount)]),
                       total_invested |-> acc.total_invested + invested_amount,
                       successful_investments |->
                           acc.successful_investments
                             + (IF counts_as_invested(shares) THEN 1 ELSE 0)]

\* fault variant: the total is rounded to whole rupees before it is subtracted
remaining_cash_whole_rupees(amount, total_invested) ==
    amount - RoundHalfEven(total_invested, Rupee) * Rupee

\* remaining_cash = investment_amount - total_invested
remaining_cash_of(amount, total_invested) == amount - total_invested

NoResponse == [status |-> "none"]

\* main.py calculate_investment_api: (success, results, summary,
\* selected_companies, message)
calculate_investment_api(df, cp, amount) ==
    LET sel == selected(df, cp)
        total == total_selected_weight(df, cp)
        run == iterrows(sel, total, amount, Len(sel))
    IN  IF run.raised
        THEN [success |-> FALSE, results |-> <<>>, summary |-> <<>>,
              selected_companies |-> <<>>]
        ELSE [success |-> TRUE,
              results |-> run.results,
              summary |->
                [total_investment_amount |-> amount,
                 total_invested |-> round2(run.total_invested),
                 remaining_cash |-> round2(remaining_cash_of(amount, run.total_invested)),
                 investment_efficiency_percent |->
                     RoundHalfEven(run.total_invested * 10000, amount),
                 companies_selected |-> Len(sel),
                 companies_invested |-> run.successful_investments,
                 target_coverage_percent |-> cp,
                 actual_coverage_percent |-> RoundHalfEven(total * 10000, WeightOne)],
              selected_companies |-> [i \in DOMAIN sel |-> sel[i].symbol]]

\* kse1.py invest_in_kse100: no try/except, so the ValueError reaches the
\* caller; otherwise the printed summary and the returned remaining_cash
invest_in_kse100(df, cp, amount) ==
    LET sel == selected(df, cp)
        total == total_selected_weight(df, cp)
        run == iterrows(sel, total, amount, Len(sel))
    IN  IF run.raised
        THEN [status |-> "exception"]
        ELSE [status |-> "ok",
              warning |-> FALSE,
              investment_plan |-> run.results,
              summary |->
                [total_investment_amount |-> amount,
                 total_invested |-> round2(run.total_invested),
                 remaining_cash |-> round2(remaining_cash_of(amount, run.total_invested)),
                 investment_efficiency_percent |->
                     RoundHalfEven(run.total_invested * 10000, amount),
                 companies_selected |-> Len(sel),
                 companies_invested |->
                     Cardinality({i \in DOMAIN run.results :
                                     counts_as_invested(run.results[i].shares)})],
              selected_companies |-> [i \in DOMAIN sel |-> sel[i].symbol]]

\* ------------------------------------------------------------------ state
\* the spreadsheets the model starts from: up to MaxSecurities rows, weights
\* summing to at most 1
Stores ==
    UNION { { [i \in 1..n |-> [symbol |-> SymbolAt(i), weight |-> w[i], price |-> p[i]]] :
                w \in {x \in [1..n -> RawWeights] :
                          weight_sum([i \in 1..n |-> [weight |-> x[i]]]) <= WeightOne},
                p \in [1..n -> RawPrices] } : n \in 0..MaxSecurities }

AllocInit ==
    /\ store \in Stores
    /\ fetch \in FetchOutcomes
    /\ stocks \in (IF fetch = "ok" THEN Feeds ELSE {<<>>})
    /\ pc = "idle"
    /\ price_update_success = FALSE
    /\ store0 = store
    /\ coverage_percent = 0
    /\ investment_amount = 0
    /\ response = NoResponse

\* fault variant: the price column is rebuilt and saved before the fetch is
\* known to have succeeded
update_prices_writes_first(df, outcome, stks) ==
    IF outcome = "ok"
    THEN [success |-> TRUE, df |-> refreshed(df, stks),
          updated_count |-> updated_count(refreshed(df, stks))]
    ELSE [success |-> FALSE, df |-> refreshed(df, <<>>), updated_count |-> 0]

\* main.py update_prices_api / kse1.py update_prices: an exception or a non-200
\* status leaves the try block before df.to_excel
update_prices_api(df, outcome, stks) ==
    IF outcome = "ok"
    THEN [success |-> TRUE, df |-> refreshed(df, stks),
          updated_count |-> updated_count(refreshed(df, stks))]
    ELSE [success |-> FALSE, df |-> df, updated_count |-> 0]

\* GET /calculate-investment, first half: price_update_success, price_message =
\* update_prices_api()
calculate_investment_refresh ==
    /\ pc = "idle"
    /\ store' = update_prices_api(store, fetch, stocks).df
    /\ price_update_success' = update_prices_api(store, fetch, stocks).success
    /\ pc' = "api_refreshed"
    /\ UNCHANGED <<sip_vars, fetch, stocks, store0, coverage_percent, investment_amount, response>>

\* GET /calculate-investment, second half: calculate_investment_api and the
\* response (HTTP 400 when success is false)
calculate_investment_respond ==
    /\ pc = "api_refreshed"
    /\ \E cp \in CoveragePercents, amount \in InvestmentAmounts :
         LET r == calculate_investment_api(store, cp, amount)
         IN  /\ coverage_percent' = cp
             /\ investment_amount' = amount
             /\ response' =
                  IF ~r.success
                  THEN [status |-> "http_400"]
                  ELSE [status |-> "ok",
                        warning |-> ~price_update_success,
                        investment_plan |-> r.results,
                        summary |-> r.summary,
                        selected_companies |-> r.selected_companies]
    /\ pc' = "done"
    /\ UNCHANGED <<sip_vars, store, fetch, stocks, store0, price_update_success>>

\* kse1.py main(), step 1: update_prices()
main_update_prices ==
    /\ pc = "idle"
    /\ store' = update_prices_api(store, fetch, stocks).df
    /\ price_update_success' = update_prices_api(store, fetch, stocks).success
    /\ pc' = "cli_refreshed"
    /\ UNCHANGED <<sip_vars, fetch, stocks, store0, coverage_percent, investment_amount, response>>

\* kse1.py main(), steps 2 and 3: read the inputs, invest_in_kse100
main_invest ==
    /\ pc = "cli_refreshed"
    /\ \E cp \in CoveragePercents, amount \in InvestmentAmounts :
         /\ coverage_percent' = cp
         /\ investment_amount' = amount
         /\ response' =
              LET r == invest_in_kse100(store, cp, amount)
              IN  IF r.status = "ok"
                  THEN [r EXCEPT !.warning = ~price_update_success]
                  ELSE r
    /\ pc' = "cli_done"
    /\ UNCHANGED <<sip_vars, store, fetch, stocks, store0, price_update_success>>

AllocNext ==
    \/ calculate_investment_refresh
    \/ calculate_investment_respond
    \/ main_update_prices
    \/ main_invest

\* ===================================================================== SIP
AnnualInterestRates == {1200, 2400}
InitialBalances == {Big(0), Big(256), Rupees8(8003)}
MonthlyInvestments == {Big(0), Rupees8(1), Rupees8(8003)}
YearlyIncrementPercents == {0, 50, 100}

\* monthly_rate = (annual_interest_rate / 100.0) / 12.0 (main.py),
\* annual_interest_rate / 12 / 100 (sip.py): for the rates of
\* AnnualInterestRates, whole multiples of 1200, both quotients are exact and
\* the rate is a whole number
monthly_rate == (annual_interest_rate \div 100) \div 12

SIPRow(y, deposits, earnings, total_dep, accrued, net) ==
    [year |-> y,
     year_deposits |-> big_round2(deposits),
     earnings_this_year |-> big_round2(earnings),
     total_deposits |-> big_round2(total_dep),
     accrued_earnings |-> big_round2(accrued),
     net_balance |-> big_round2(net)]

\* fault variant: a crore figure is printed without its suffix
format_cr_lac_bare_crore(amount) ==
    LET crore == BigMul(BigMul(BigRupee, 10000), 1000)
        lakh == BigMul(BigMul(BigRupee, 1000), 100)
    IN  IF BigLeq(crore, amount)
        THEN [value |-> float_round2(float_div(amount, crore)), suffix |-> ""]
        ELSE IF BigLeq(lakh, amount)
        THEN [value |-> float_round2(float_div(amount, lakh)), suffix |-> "lac"]
        ELSE [value |-> big_round2(amount), suffix |-> ""]

\* format_cr_lac for amount >= 0: the 2-decimal figure (in hundredths) and its
\* suffix
format_cr_lac(amount) ==
    LET crore == BigMul(BigMul(BigRupee, 10000), 1000)
        lakh == BigMul(BigMul(BigRupee, 1000), 100)
    IN  IF BigLeq(crore, amount)
        THEN [value |-> float_round2(float_div(amount, crore)), suffix |-> "cr"]
        ELSE IF BigLeq(lakh, amount)
        THEN [value |-> float_round2(float_div(amount, lakh)), suffix |-> "lac"]
        ELSE [value |-> big_round2(amount), suffix |-> ""]

NoSipResult == [status |-> "none"]

SipIdle ==
    /\ sip_site = "off"
    /\ initial_balance = <<>>
    /\ years = 0
    /\ annual_interest_rate = 0
    /\ monthly_investment_1 = <<>>
    /\ yearly_increment_percent = 0
    /\ sip_pc = "off"
    /\ balance = <<>>
    /\ total_deposits = <<>>
    /\ total_earnings = <<>>
    /\ monthly_investment = <<>>
    /\ year = 0
    /\ month = 0
    /\ year_deposits = <<>>
    /\ year_earnings = <<>>
    /\ monthly_interest = <<>>
    /\ rows = <<>>
    /\ sip_result = NoSipResult
    /\ returned = <<>>

SipInit ==
    /\ sip_site \in {"api", "cli"}
    /\ initial_balance \in InitialBalances
    /\ years = 1
    /\ annual_interest_rate \in AnnualInterestRates
    /\ monthly_investment_1 \in MonthlyInvestments
    /\ yearly_increment_percent \in YearlyIncrementPercents
    /\ sip_pc = "call"
    /\ balance = <<>>
    /\ total_deposits = <<>>
    /\ total_earnings = <<>>
    /\ monthly_investment = <<>>
    /\ year = 0
    /\ month = 0
    /\ year_deposits = <<>>
    /\ year_earnings = <<>>
    /\ monthly_interest = <<>>
    /\ rows = <<>>
    /\ sip_result = NoSipResult
    /\ returned = <<>>

\* main.py 176-193 / sip.py 14-31: the locals, the optional Year 0 row, and
\* the entry into the first year
sip_begin ==
    /\ sip_pc = "call"
    /\ balance' = initial_balance
    /\ total_deposits' = initial_balance
    /\ total_earnings' = Big(0)
    /\ monthly_investment' = monthly_investment_1
    /\ rows' = IF BigLess(Big(0), initial_balance)
               THEN << SIPRow(0, initial_balance, Big(0), initial_balance,
                              Big(0), initial_balance) >>
               ELSE <<>>
    /\ year' = 1
    /\ month' = 1
    /\ year_deposits' = Big(0)
    /\ year_earnings' = Big(0)
    /\ monthly_interest' = Big(0)
    /\ sip_pc' = IF years >= 1 THEN "interest" ELSE "summary"
    /\ UNCHANGED <<alloc_vars, sip_args, years, sip_result, returned>>

\* fault variant: the month's interest is left out of year_earnings
interest_not_accumulated(b, rate, earned) ==
    [monthly_interest |-> float_mul(b, rate),
     balance |-> float_add(b, float_mul(b, rate)),
     year_earnings |-> earned]

\* fault variant: the month's deposit already earns interest in its own month
interest_on_deposit(b, rate, earned) ==
    [monthly_interest |-> float_mul(float_add(b, monthly_investment), rate),
     balance |-> float_add(b, float_mul(float_add(b, monthly_investment), rate)),
     year_earnings |-> float_add(earned, float_mul(float_add(b, monthly_investment), rate))]

\* main.py 199-201 / sip.py 38-40
apply_interest(b, rate, earned) ==
    [monthly_interest |-> float_mul(b, rate),
     balance |-> float_add(b, float_mul(b, rate)),
     year_earnings |-> float_add(earned, float_mul(b, rate))]

sip_interest ==
    /\ sip_pc = "interest"
    /\ monthly_interest' = apply_interest(balance, monthly_rate, year_earnings).monthly_interest
    /\ balance' = apply_interest(balance, monthly_rate, year_earnings).balance
    /\ year_earnings' = apply_interest(balance, monthly_rate, year_earnings).year_earnings
    /\ sip_pc' = "deposit"
    /\ UNCHANGED <<alloc_vars, sip_args, years, total_deposits, total_earnings, monthly_investment,
                   year, month, year_deposits, rows, sip_result, returned>>

\* main.py 204-205 / sip.py 43-44, and the inner loop's next iteration
sip_deposit ==
    /\ sip_pc = "deposit"
    /\ balance' = float_add(balance, monthly_investment)
    /\ year_deposits' = float_add(year_deposits, monthly_investment)
    /\ IF month < MonthsPerYear
       THEN month' = month + 1 /\ sip_pc' = "interest"
       ELSE month' = month /\ sip_pc' = "year_end"
    /\ UNCHANGED <<alloc_vars, sip_args, years, total_deposits, total_earnings, monthly_investment,
                   year, year_earnings, monthly_interest, rows, sip_result, returned>>

\* fault variant: the increment replaces the contribution instead of being
\* added to it
escalation_replaces(m, percent) ==
    float_add_scaled(Big(0), float_scale(m, float_div(Big(percent), Big(100))))

\* monthly_investment += monthly_investment * (yearly_increment_percent / 100.0)
escalated(m, percent) ==
    float_add_scaled(m, float_scale(m, float_div(Big(percent), Big(100))))

\* main.py 207-220 / sip.py 46-59: the running totals, the year's row, the
\* escalation, and the outer loop's next iteration
sip_year_end ==
    /\ sip_pc = "year_end"
    /\ total_deposits' = float_add(total_deposits, year_deposits)
    /\ total_earnings' = float_add(total_earnings, year_earnings)
    /\ rows' = Append(rows, SIPRow(year, year_deposits, year_earnings,
                                   float_add(total_deposits, year_deposits),
                                   float_add(total_earnings, year_earnings), balance))
    /\ monthly_investment' = escalated(monthly_investment, yearly_increment_percent)
    /\ IF year < years
       THEN /\ year' = year + 1
            /\ month' = 1
            /\ year_deposits' = Big(0)
            /\ year_earnings' = Big(0)
            /\ sip_pc' = "interest"
       ELSE /\ UNCHANGED <<year, month, year_deposits, year_earnings>>
            /\ sip_pc' = "summary"
    /\ UNCHANGED <<alloc_vars, sip_args, years, balance, monthly_interest, sip_result, returned>>

\* main.py 222-239: growth_percent is 0.0 when total_deposits is 0
compute_sip_api_summary ==
    /\ sip_pc = "summary"
    /\ sip_site = "api"
    /\ LET final_corpus == balance
           profit == float_sub(final_corpus, total_deposits)
       IN  sip_result' =
             [status |-> "ok",
              final_corpus |-> big_round2(final_corpus),
              total_deposits |-> big_round2(total_deposits),
              total_earnings |-> big_round2(total_earnings),
              profit |-> big_round2(profit),
              growth_percent |->
                  IF BigLess(Big(0), total_deposits)
                  THEN float_round2(float_times(float_div(profit, total_deposits), 100))
                  ELSE Big(0),
              final_corpus_formatted |-> format_cr_lac(final_corpus),
              total_deposits_formatted |-> format_cr_lac(total_deposits),
              total_earnings_formatted |-> format_cr_lac(total_earnings),
              profit_formatted |-> format_cr_lac(profit)]
    /\ returned' = Append(returned, [result |-> sip_result', corpus |-> balance])
    /\ sip_pc' = "returned"
    /\ UNCHANGED <<alloc_vars, sip_args, years, sip_locals>>

\* sip.py 61-74: growth_percent = (profit / total_invested) * 100 has no guard:
\* ZeroDivisionError when total_invested is 0, before anything is printed
sip_calculator_summary ==
    /\ sip_pc = "summary"
    /\ sip_site = "cli"
    /\ LET final_corpus == balance
           profit == float_sub(final_corpus, total_deposits)
       IN  sip_result' =
             IF total_deposits = Big(0)
             THEN [status |-> "ZeroDivisionError"]
             ELSE [status |-> "ok",
                   total_deposits_formatted |-> format_cr_lac(total_deposits),
                   profit_formatted |-> format_cr_lac(profit),
                   final_corpus_formatted |-> format_cr_lac(final_corpus),
                   growth_percent |->
                       float_round2(float_times(float_div(profit, total_deposits), 100))]
    /\ returned' = Append(returned, [result |-> sip_result', corpus |-> balance])
    /\ sip_pc' = "returned"
    /\ UNCHANGED <<alloc_vars, sip_args, years, sip_locals>>

\* the caller repeats the call with the same arguments and one more year
sip_call_again ==
    /\ sip_pc = "returned"
    /\ years < MaxYears
    /\ years' = years + 1
    /\ sip_pc' = "call"
    /\ sip_result' = NoSipResult
    /\ UNCHANGED <<alloc_vars, sip_args, sip_locals, returned>>

SipNext ==
    \/ sip_begin
    \/ sip_interest
    \/ sip_deposit
    \/ sip_year_end
    \/ compute_sip_api_summary
    \/ sip_calculator_summary
    \/ sip_call_again

\* ============================================================ specifications
AllocIdle ==
    /\ store = <<>>
    /\ fetch = "off"
    /\ stocks = <<>>
    /\ pc = "off"
    /\ price_update_success = FALSE
    /\ store0 = <<>>
    /\ coverage_percent = 0
    /\ investment_amount = 0
    /\ response = NoResponse

vars == <<alloc_vars, sip_vars>>

\* the allocation pipeline
Init == AllocInit /\ SipIdle
Next == AllocNext
Spec == Init /\ [][Next]_vars

\* the SIP simulator
SipSpecInit == SipInit /\ AllocIdle
SipSpec == SipSpecInit /\ [][SipNext]_vars

\* ==================================================================== claims
Done == pc \in {"done", "cli_done"}
Ok == Done /\ response.status = "ok"

\* the sum of the first i weights of the spreadsheet
PrefixWeight(i) == weight_sum(SubSeq(store, 1, i))

\* cumulative weight of the first i rows >= coverage_percent / 100
Reaches(i) == PrefixWeight(i) * 100 >= coverage_percent * WeightOne

\* the rows the run selected, read off the response
SelectedRows == SubSeq(store, 1, Len(response.selected_companies))

UnpricedSelected == {i \in DOMAIN SelectedRows : invalid_price(SelectedRows[i].price)}

\* C1: the selection is the prefix that ends at the first row whose running
\* cumulative weight reaches coverage_percent / 100, that row included; when no
\* row reaches it the whole list is selected.
C1_SelectionIsCrossingPrefix ==
    Ok =>
      LET n == Len(response.selected_companies)
      IN  /\ n <= Len(store)
          /\ response.selected_companies = [i \in 1..n |-> store[i].symbol]
          /\ \A j \in 1..(n - 1) : ~Reaches(j)
          /\ n < Len(store) => Reaches(n)
          /\ (\A i \in DOMAIN store : ~Reaches(i)) => n = Len(store)

\* a run whose selection stops inside the list, at a row that overshoots the
\* target
C1_Witness ==
    /\ Ok
    /\ Len(response.selected_companies) = 2
    /\ Len(store) = 3
    /\ PrefixWeight(2) * 100 > coverage_percent * WeightOne
    /\ ~Reaches(1)

\* C2: reported total_invested + reported remaining_cash is within 0.01 of
\* investment_amount (all three in hundredths of a rupee, times Rupee).
C2_InvestedPlusRemaining ==
    Ok =>
      LET sum == (response.summary.total_invested + response.summary.remaining_cash) * Rupee
          amount == investment_amount * 100
      IN  sum - amount <= Rupee /\ amount - sum <= Rupee

\* a run with an unpriced security, a zero-share line and a bought line, whose
\* two rounded figures do not add up exactly
C2_Witness ==
    /\ Ok
    /\ UnpricedSelected # {}
    /\ \E l \in DOMAIN response.investment_plan : response.investment_plan[l].shares = 0
    /\ \E l \in DOMAIN response.investment_plan : response.investment_plan[l].shares > 0
    /\ (response.summary.total_invested + response.summary.remaining_cash) * Rupee
         # investment_amount * 100

\* C3: on every line shares is a natural number and shares x price is at most
\* adjusted_weight x investment_amount; the lines together spend at most
\* investment_amount.
RECURSIVE SpentOn(_)
SpentOn(lines) ==
    IF lines = <<>> THEN 0 ELSE lines[1].shares * lines[1].price + SpentOn(Tail(lines))

C3_NeverOverspends ==
    Ok =>
      /\ \A l \in DOMAIN response.investment_plan :
           LET line == response.investment_plan[l]
           IN  /\ line.shares \in Nat
               /\ line.shares * line.price * line.adjusted_weight[2]
                    <= line.adjusted_weight[1] * investment_amount
      /\ SpentOn(response.investment_plan) <= investment_amount

\* a line on which the floor cut a fractional share off
C3_Witness ==
    /\ Ok
    /\ \E l \in DOMAIN response.investment_plan :
         LET line == response.investment_plan[l]
         IN  /\ line.shares > 0
             /\ line.shares * line.price * line.adjusted_weight[2]
                  < line.adjusted_weight[1] * investment_amount

\* the feed entries that price row i: the key matches the row's symbol without
\* regard to case
FeedHits(i) ==
    {k \in DOMAIN stocks :
        /\ stocks[k].is_dict
        /\ stocks[k].has_price
        /\ upper(stocks[k].sym) = strip(upper(store0[i].symbol))}

\* C5: when the fetch fails the refresh writes nothing to the spreadsheet, and
\* the run answers from the stored prices with a warning; it fails only where
\* the stored selection has no weight to normalise, as it would without a fetch.
C5_FetchFailureIsNotFatal ==
    fetch # "ok" =>
      /\ store = store0
      /\ Done =>
           /\ ~price_update_success
           /\ response.status # "ok" =>
                total_selected_weight(store0, coverage_percent) = 0
           /\ response.status = "ok" =>
                /\ response.warning
                /\ \A l \in DOMAIN response.investment_plan :
                     \E i \in DOMAIN store0 :
                        /\ store0[i].symbol = response.investment_plan[l].symbol
                        /\ store0[i].price = response.investment_plan[l].price

\* a failed fetch after which shares are bought at a stored price
C5_Witness ==
    /\ fetch # "ok"
    /\ Ok
    /\ response.warning
    /\ \E l \in DOMAIN response.investment_plan : response.investment_plan[l].shares > 0

\* C6: after a successful refresh a row matched in the feed carries the feed's
\* price and a row not matched carries the price it had before (stated for the
\* rows that had a valid price, the ones the allocation would have bought).
C6_UnmatchedKeepPrice ==
    (fetch = "ok" /\ pc # "idle") =>
      \A i \in DOMAIN store :
         IF FeedHits(i) # {}
         THEN store[i].price = stocks[Max(FeedHits(i))].price
         ELSE ~invalid_price(store0[i].price) => store[i].price = store0[i].price

\* C7: a run over a non-empty selection whose weights sum to zero fails and
\* returns no lines and no summary.
C7_ZeroWeightFails ==
    (Done /\ store # <<>> /\ total_selected_weight(store, coverage_percent) = 0)
       => response.status # "ok"

\* C9: an unpriced selected security has no line and adds nothing to the total,
\* yet counts in companies_selected; companies_invested counts the lines with
\* shares > 0, so companies_invested <= lines <= companies_selected.
PricedSelected == SelectSeq(SelectedRows, LAMBDA row : ~invalid_price(row.price))

C9_SkippedButCounted ==
    Ok =>
      LET plan == response.investment_plan
          summary == response.summary
      IN  /\ Len(plan) = Len(PricedSelected)
          /\ \A l \in DOMAIN plan :
               /\ plan[l].symbol = PricedSelected[l].symbol
               /\ plan[l].price = PricedSelected[l].price
          /\ summary.total_invested = round2(SpentOn(plan))
          /\ summary.companies_selected = Len(response.selected_companies)
          /\ summary.companies_invested =
               Cardinality({l \in DOMAIN plan : plan[l].shares > 0})
          /\ summary.companies_invested <= Len(plan)
          /\ Len(plan) <= summary.companies_selected

\* a run that skips an unpriced security, prints a zero-share line and buys
\* another
C9_Witness ==
    /\ Ok
    /\ UnpricedSelected # {}
    /\ response.summary.companies_invested >= 1
    /\ response.summary.companies_invested < Len(response.investment_plan)
    /\ Len(response.investment_plan) < response.summary.companies_selected

\* ------------------------------------------------------------- SIP claims
\* the reported row of year y (y >= 1), and the reported balance before it
RowOfYear(y) == CHOOSE r \in {rows[i] : i \in DOMAIN rows} : r.year = y

NetBalanceBefore(y) ==
    IF y = 1 THEN big_round2(initial_balance) ELSE RowOfYear(y - 1).net_balance

RowYears == {rows[i].year : i \in DOMAIN rows} \ {0}

\* what a row's three figures add up to, in hundredths
RowSum(y) ==
    BigAdd(NetBalanceBefore(y),
           BigAdd(RowOfYear(y).year_deposits, RowOfYear(y).earnings_this_year))

\* C4 as stated: every reported row satisfies
\* net_balance(y) = net_balance(y-1) + year_deposits(y) + earnings_this_year(y).
C4_RowIdentityExact ==
    \A y \in RowYears : RowOfYear(y).net_balance = RowSum(y)

\* what the floating-point additions of one year can lose, in hundredths: each
\* of the year's 48 additions is off by at most 2^-53 of the year's closing
\* balance
RoundingSlack(y) == ShiftRight(RowOfYear(y).net_balance, 47)

\* C4 amended: the four figures are rounded to 2 decimals one by one and the
\* running sums are floating-point sums, so the identity holds on the reported
\* rows to within 0.02 plus 2^-47 of the row's net_balance.
C4_RowIdentityWithinRounding ==
    \A y \in RowYears :
       /\ BigLeq(RowOfYear(y).net_balance,
                 BigAdd(RowSum(y), BigAdd(Big(2), RoundingSlack(y))))
       /\ BigLeq(RowSum(y),
                 BigAdd(RowOfYear(y).net_balance, BigAdd(Big(2), RoundingSlack(y))))

\* a second-year row with deposits and earnings whose figures do not add up
\* exactly
C4_Witness ==
    \E y \in RowYears :
       /\ y >= 2
       /\ RowOfYear(y).year_deposits # Big(0)
       /\ RowOfYear(y).earnings_this_year # Big(0)
       /\ RowOfYear(y).net_balance # RowSum(y)

\* C8: every SIP call completes; growth_percent is profit / total_deposits x 100
\* when total_deposits > 0 and 0 when total_deposits = 0, at both call sites.
C8_GrowthPercentGuarded ==
    sip_pc = "returned" =>
      /\ sip_result.status = "ok"
      /\ sip_result.growth_percent =
           IF total_deposits = Big(0) THEN Big(0)
           ELSE float_round2(float_times(float_div(float_sub(balance, total_deposits),
                                                   total_deposits), 100))

\* the final corpus a call reported, in hundredths of a rupee: the summary's
\* final_corpus (main.py), the formatted figure with its scale (sip.py)
ReportedCorpus(ret) ==
    IF sip_site = "api" THEN ret.result.final_corpus
    ELSE LET f == ret.result.final_corpus_formatted
         IN  IF f.suffix = "cr" THEN BigMul(BigMul(f.value, 10000), 1000)
             ELSE IF f.suffix = "lac" THEN BigMul(BigMul(f.value, 1000), 100)
             ELSE f.value

Funded == initial_balance # Big(0) \/ monthly_investment_1 # Big(0)

\* C10 as stated: with money put in, the reported final_corpus for years = n+1
\* is strictly greater than the one for years = n.
C10_ReportedStrictlyIncreasing ==
    Funded =>
      \A n \in 1..(Len(returned) - 1) :
         BigLess(ReportedCorpus(returned[n]), ReportedCorpus(returned[n + 1]))

\* C10 amended: with money put in, the reported final_corpus for years = n+1
\* is greater than or equal to the one for years = n.
C10_ReportedNeverDecreases ==
    Funded =>
      \A n \in 1..(Len(returned) - 1) :
         BigLeq(ReportedCorpus(returned[n]), ReportedCorpus(returned[n + 1]))

\* two calls, for years = 1 and years = 2, whose reported corpus grew
C10_Witness ==
    /\ Funded
    /\ Len(returned) >= 2
    /\ BigLess(ReportedCorpus(returned[1]), ReportedCorpus(returned[2]))

RECURSIVE Pow(_, _)
Pow(b, e) == IF e = 0 THEN 1 ELSE b * Pow(b, e - 1)

\* the balance of year 1 after k whole months, in closed form: the initial
\* balance compounded k times, and the k deposits compounded k-1, ..., 0 times
FirstYearBalance(k) ==
    BigAdd(BigMul(initial_balance, Pow(1 + monthly_rate, k)),
           BigMul(monthly_investment_1,
                  (Pow(1 + monthly_rate, k) - 1) \div monthly_rate))

\* the number of zero bits below the lowest set bit of a # 0
TrailingZeros(a) == Min({i \in 0..BitLen(a) : BitAt(a, i) = 1})

\* every sum of the simulation up to the amount x is exact in floating point:
\* all of them are multiples of the lowest bit of the two amounts paid in, and
\* x spans at most 53 bits above it
SumsExactUpTo(x) ==
    \A a \in {initial_balance, monthly_investment_1} \ {Big(0)} :
       BitLen(x) - TrailingZeros(a) <= MantissaBits

\* C11, between a month's two steps: the deposits so far are those of the
\* earlier months; in year 1, while the sums are exact, the interest of month k
\* is monthly_rate times the closed form after k-1 months and the balance is
\* that closed form plus the interest; the interest is 0 in month 1 when
\* initial_balance is 0.
C11_BetweenSteps ==
    sip_pc = "deposit" =>
      /\ year_deposits = BigMul(monthly_investment, month - 1)
      /\ (year = 1 /\ SumsExactUpTo(BigMul(FirstYearBalance(month - 1), 1 + monthly_rate))) =>
            /\ monthly_interest = BigMul(FirstYearBalance(month - 1), monthly_rate)
            /\ balance = BigAdd(FirstYearBalance(month - 1), monthly_interest)
      /\ (year = 1 /\ month = 1 /\ initial_balance = Big(0)) =>
            monthly_interest = Big(0)

\* C11, the month's first step: the interest is monthly_rate times the balance
\* as it stands, and is added to the balance and to the year's earnings; no
\* deposit is made
C11_InterestStep ==
    sip_pc = "interest" =>
      /\ sip_pc' = "deposit"
      /\ monthly_interest' = float_mul(balance, monthly_rate)
      /\ balance' = float_add(balance, monthly_interest')
      /\ year_earnings' = float_add(year_earnings, monthly_interest')
      /\ year_deposits' = year_deposits

\* C11, the month's second step: the deposit is added to the balance and to the
\* year's deposits; it earns nothing
C11_DepositStep ==
    sip_pc = "deposit" =>
      /\ sip_pc' \in {"interest", "year_end"}
      /\ balance' = float_add(balance, monthly_investment)
      /\ year_deposits' = float_add(year_deposits, monthly_investment)
      /\ year_earnings' = year_earnings
      /\ monthly_interest' = monthly_interest

\* C11: in every simulated month the interest is computed on the balance before
\* that month's deposit and added first, and only then is the deposit added, so
\* a deposit earns nothing in its own month; with initial_balance = 0 the first
\* month of year 1 earns exactly 0.
C11_InterestBeforeDeposit ==
    []C11_BetweenSteps /\ [][C11_InterestStep /\ C11_DepositStep]_vars

\* month 2 of year 1 of a plan that started from nothing: the first deposit
\* earned nothing in month 1 and earns its first interest now
C11_Witness ==
    /\ sip_pc = "deposit"
    /\ initial_balance = Big(0)
    /\ year = 1
    /\ month = 2
    /\ monthly_investment # Big(0)
    /\ monthly_interest = BigMul(monthly_investment, monthly_rate)

RECURSIVE BigMulPow(_, _, _)
BigMulPow(a, k, e) == IF e = 0 THEN a ELSE BigMulPow(BigMul(a, k), k, e - 1)

\* monthly_investment x (1 + yearly_increment_percent/100)^(y-1)
YearContribution(y) ==
    BigDiv(BigMulPow(monthly_investment_1, 100 + yearly_increment_percent, y - 1),
           BigMulPow(Big(1), 100, y - 1))

\* C12: throughout year y the monthly contribution is
\* monthly_investment x (1 + yearly_increment_percent/100)^(y-1), the same in
\* each of its months; the year's deposits are 12 times that when its row is
\* emitted, which is what the row reports (to 2 decimals); with a zero
\* increment every year's row reports the same deposits.
C12_EscalationAfterRow ==
    /\ sip_pc \in {"interest", "deposit", "year_end"} =>
          monthly_investment = YearContribution(year)
    /\ sip_pc \in {"interest", "deposit"} =>
          year_deposits = BigMul(YearContribution(year), month - 1)
    /\ sip_pc = "year_end" =>
          year_deposits = BigMul(YearContribution(year), MonthsPerYear)
    /\ \A y \in RowYears :
          RowOfYear(y).year_deposits =
              big_round2(BigMul(YearContribution(y), MonthsPerYear))
    /\ yearly_increment_percent = 0 =>
          \A y, z \in RowYears : RowOfYear(y).year_deposits = RowOfYear(z).year_deposits

\* a second-year row of an escalating plan: its deposits are larger than the
\* first year's
C12_Witness ==
    /\ monthly_investment_1 # Big(0)
    /\ yearly_increment_percent > 0
    /\ 2 \in RowYears
    /\ BigLess(RowOfYear(1).year_deposits, RowOfYear(2).year_deposits)

=============================================================================
